---- MODULE Spec2Model ----
(***************************************************************************)
(* Model of pycameresp's file-transfer path.                               *)
(*                                                                         *)
(*  Host part   : StreamThread of tools/camflasher/streamdevice.py, the    *)
(*                worker loop run() fed by the command queue.              *)
(*  Device part : the upload / download shell commands and the capability  *)
(*                check of modules/lib/shell/shell.py.                     *)
(*                                                                         *)
(*  User part   : User.check / User.change of modules/lib/server/user.py.  *)
(*                                                                         *)
(* The exchange, filesystem, terminal and watchdog modules are imported by *)
(* both files; each call into them is a step whose outcome (a return       *)
(* value or a raised exception) is chosen by the environment.              *)
(***************************************************************************)
EXTENDS Integers, Sequences, FiniteSets, TLC

VARIABLES
    \* ---- host: StreamThread fields
    state,      \* self.state
    stream,     \* self.stream : None, "serial" or "telnet"
    loop,       \* self.loop
    command,    \* self.command : the queue, oldest first
    \* ---- host: position of the worker and what the current iteration did
    pc,         \* "run" (top of while), "upload", "download", "receive", "done"
    from,       \* self.state when the current iteration began
    cur,        \* the command dequeued by the current iteration, or NoCmd
    todo,       \* upload session: matching files not yet passed to the sender
    cb,         \* messages passed to receive_callback in the current iteration
    tx,         \* operations made on the stream in the current iteration
    ev,         \* exceptions caught in the current iteration
    during,     \* codes of the commands queued while a session was running
    nput,       \* number of commands the caller has queued so far
    cancel,     \* the caller is in send(), between command.put and the test
                \* of self.stream
    \* ---- device: the shell running upload / download
    stdout_redirected,  \* the global of shell.py: None or "file"
    dpc,        \* "prompt", "upload", "download" or "searched"
    dcmd,       \* the command exec_command is running, or ran last
    darg,       \* its file argument
    response,   \* what terminal.getch returned to check_cam_flasher
    capable,    \* what check_cam_flasher returned to the command
    dfiles,     \* download: the entries the scan passes to Exporter.show
    didx,       \* download: the entry show is called for
    dtry,       \* download: calls of send_file made by this call of show
    dreads,     \* upload: calls of FileReader.read made
    dlog,       \* what the running (or last) command did, in order
    nexec,      \* number of commands run so far
    shell_exited, \* the global of shell.py: the exit command was run
    consumed,   \* the host command whose termination text the device read last
    \* ---- user: the User singleton
    instance,   \* User.instance: the stored user and password
    login_state,\* User.login_state[0]: "None", "True" or "False"
    last,       \* the last call of User.change: arguments, the stored
                \* credentials before it, its result, whether it saved
    \* ---- host directory: the test of on_upload_file on the asked directory
    tree,       \* the directories that exist on the host, as path strings
    wanted,     \* the last upload request read: path and pattern
    scan,       \* what the request gave: the directory scanned, files sent
    \* ---- device: one call of exec_command, statement by statement
    xpc,        \* "idle" (not executing), "try", "call", "except", "finally"
    xargs,      \* what the parsing gave: a command name, an output file name
    xfile,      \* the redirection file of the call: "none", "open", "closed"
    xres,       \* how the command function ended
    xlog,       \* what the call printed, and where
    xcount,     \* calls of exec_command so far
    \* ---- camera: the Reservation of modules/lib/video/video.py
    identifier, \* Reservation.identifier: NoId for None, or the id of the holder
    count,      \* Reservation.count
    suspended,  \* Reservation.suspended: NoneInt for None, or an integer
    waiting,    \* per object: the timeout left to its reserve() call, 0: none
    wsusp,      \* per object: the suspension of its reserve() call
    rlast,      \* the last call: operation, object, suspension, result
    taken,      \* the suspension given by the acquire that took the reservation
    uniform,    \* every later acquire of the holder gave that suspension too
    since,      \* acquire calls without suspension since the last release
    held        \* successful acquires less successful unreserves

hostvars == <<state, stream, loop, command, pc, from, cur, todo, cb, tx, ev,
              during, nput, cancel>>
devvars == <<stdout_redirected, dpc, dcmd, darg, response, capable, dfiles,
             didx, dtry, dreads, dlog, nexec, shell_exited, consumed>>
uservars == <<instance, login_state, last>>
dirvars == <<tree, wanted, scan>>
execvars == <<xpc, xargs, xfile, xres, xlog, xcount>>
resvars == <<identifier, count, suspended, waiting, wsusp, rlast, taken,
             uniform, since, held>>
vars == <<hostvars, devvars, uservars, dirvars, execvars, resvars>>

\* What the steps of one part leave alone
outsideHost == <<devvars, uservars, dirvars, execvars, resvars>>
outsideDev == <<hostvars, uservars, dirvars, execvars, resvars>>
outsideUser == <<hostvars, devvars, dirvars, execvars, resvars>>
outsideDir == <<hostvars, devvars, uservars, execvars, resvars>>
outsideRes == <<hostvars, devvars, uservars, dirvars, execvars>>
\* exec_command assigns stdout_redirected, and nothing else of the above
outsideExec == <<hostvars, uservars, dirvars, resvars, dpc, dcmd, darg,
                 response, capable, dfiles, didx, dtry, dreads, dlog, nexec,
                 shell_exited, consumed>>

----------------------------------------------------------------------------
\* Bounds of the model
MaxPuts  == 3      \* commands the caller queues in one behaviour
MaxQueue == 2      \* commands waiting in the queue at one time
MaxFiles == 2      \* files matched by one upload request
MaxExec  == 2      \* shell commands run in one behaviour
MaxEntries == 2    \* entries enumerated by one download
MaxReads == 3      \* calls of FileReader.read in one device upload

----------------------------------------------------------------------------
\* StreamThread constants
DISCONNECTED      == 0
CONNECTING_TELNET == 1
TELNET_CONNECTED  == 2
SERIAL_CONNECTED  == 3

CMD_CONNECT_SERIAL     == 0
CMD_CONNECT_TELNET     == 1
CMD_DISCONNECT         == 2
CMD_WRITE_DATA         == 3
CMD_UPLOAD_FILE        == 4
CMD_DONWLOAD_FILE      == 5
CMD_UPLOAD_PROMPT_FILE == 6
CMD_QUIT               == 7

WriteThreshold == 32   \* on_write: data longer than this is sent in chunks
WriteChunk     == 8    \* on_write: size of one chunk

None  == "None"
NoCmd == [code |-> -1, data |-> None, size |-> 0]

Connected == {TELNET_CONNECTED, SERIAL_CONNECTED}

\* The tuples the caller's methods put in the queue (quit, write, upload_file,
\* download_file, connect_serial, connect_telnet, disconnect, upload_prompt).
\* A port or host is "" or a name; written data is "bytes", of length size.
Commands ==
    {[code |-> CMD_CONNECT_SERIAL, data |-> p, size |-> 0] : p \in {"", "port"}}
    \cup {[code |-> CMD_CONNECT_TELNET, data |-> h, size |-> 0] : h \in {"", "host"}}
    \cup {[code |-> CMD_WRITE_DATA, data |-> "bytes", size |-> n] :
              n \in {1, WriteThreshold + 1}}
    \cup {[code |-> c, data |-> "directory", size |-> 0] :
              c \in {CMD_UPLOAD_FILE, CMD_DONWLOAD_FILE}}
    \cup {[code |-> CMD_UPLOAD_PROMPT_FILE, data |-> "filename", size |-> 0]}
    \cup {[code |-> c, data |-> None, size |-> 0] : c \in {CMD_DISCONNECT, CMD_QUIT}}

\* One operation on the stream: op is "data", "file", "exit", "prompt",
\* "reader" or "close"; n the chunk length or the file number; res "ok",
\* "fail" (the call returned False) or "raise".
Op(op, n, res) == [op |-> op, n |-> n, res |-> res]

Has(seq, x) == \E i \in 1..Len(seq) : seq[i] = x

----------------------------------------------------------------------------
\* The worker's view of the object during one iteration
Machine == [state |-> state, stream |-> stream, loop |-> loop,
            cb |-> <<>>, tx |-> <<>>, ev |-> {}]

close(m) ==
    IF m.stream # None
    THEN [m EXCEPT !.tx = Append(@, Op("close", 0, "ok")),
                   !.state = DISCONNECTED, !.stream = None]
    ELSE m

print(m, message) == [m EXCEPT !.cb = Append(@, message)]

caught(m, what) == [m EXCEPT !.ev = @ \cup {what}]

\* opened: the stream was created and set up without an exception
on_connect_serial(m, cmd, data, opened) ==
    IF cmd = CMD_CONNECT_SERIAL
    THEN LET c == close(m) IN
         IF data # ""
         THEN IF opened
              THEN print([c EXCEPT !.stream = "serial"], "Connect serial link")
              ELSE close(caught(c, "open"))
         ELSE c
    ELSE m

on_connect_telnet(m, cmd, data, opened) ==
    IF cmd = CMD_CONNECT_TELNET
    THEN LET c == close(m) IN
         IF data # ""
         THEN IF opened
              THEN print([c EXCEPT !.stream = "telnet"], "Connect telnet")
              ELSE close(caught(c, "open"))
         ELSE c
    ELSE m

on_connect(m, cmd, data, opened) ==
    on_connect_telnet(on_connect_serial(m, cmd, data, opened), cmd, data, opened)

\* (a slip: the stream is closed and the loop goes on)
on_quit_keeps_looping(m, cmd) ==
    IF cmd = CMD_QUIT THEN close(m) ELSE m

on_quit(m, cmd) ==
    IF cmd = CMD_QUIT
    THEN close([m EXCEPT !.loop = FALSE])
    ELSE m

\* A handler that acts in the connected states only
on_disconnect_when_connected(m, cmd) ==
    IF cmd = CMD_DISCONNECT /\ m.state \in Connected
    THEN close(IF m.state = TELNET_CONNECTED THEN print(m, "Disconnected") ELSE m)
    ELSE m

on_disconnect(m, cmd) ==
    IF cmd = CMD_DISCONNECT
    THEN close(IF m.state \in {TELNET_CONNECTED, CONNECTING_TELNET}
               THEN print(m, "Disconnected")
               ELSE m)
    ELSE m

\* A handler that does not test the command code
on_upload_prompt_any(m, cmd) ==
    [m EXCEPT !.tx = Append(@, Op("prompt", 0, "ok"))]

\* uploader.upload_prompt(self.stream, ...): fileuploader drives the stream
on_upload_prompt(m, cmd) ==
    IF cmd = CMD_UPLOAD_PROMPT_FILE
    THEN [m EXCEPT !.tx = Append(@, Op("prompt", 0, "ok"))]
    ELSE m

\* (a slip: the rest is cut one byte too far)
RECURSIVE Chunks_skipping(_)
Chunks_skipping(n) ==
    IF n <= 0 THEN <<>>
    ELSE IF n <= WriteChunk THEN <<n>>
    ELSE <<WriteChunk>> \o Chunks_skipping(n - WriteChunk - 1)

\* The same loop on the bytes themselves: data_to_send = data[:8],
\* data = data[8:], while len(data) > 0
RECURSIVE Slices(_)
Slices(data) ==
    IF Len(data) = 0 THEN <<>>
    ELSE IF Len(data) <= WriteChunk THEN <<data>>
    ELSE <<SubSeq(data, 1, WriteChunk)>>
             \o Slices(SubSeq(data, WriteChunk + 1, Len(data)))

\* The arguments of the calls of stream.write made for data, in order
Written(data) == IF Len(data) > WriteThreshold THEN Slices(data) ELSE <<data>>

\* data[:8], data[8:] repeated until nothing is left: the chunk lengths
RECURSIVE Chunks(_)
Chunks(n) ==
    IF n <= 0 THEN <<>>
    ELSE IF n <= WriteChunk THEN <<n>>
    ELSE <<WriteChunk>> \o Chunks(n - WriteChunk)

WritePlan(n) == IF n > WriteThreshold THEN Chunks(n) ELSE <<n>>

\* size: len(data); done: the number of stream.write calls that returned before
\* an exception (Len(WritePlan(size)) when none is raised); echo: the device
\* has bytes waiting after each chunk, which are read and passed to the callback.
on_write(m, cmd, size, done, echo) ==
    IF cmd = CMD_WRITE_DATA /\ m.stream # None
    THEN LET plan == WritePlan(size)
             sent == [i \in 1..done |-> Op("data", plan[i], "ok")]
             gaps == IF Len(plan) > 1 /\ echo
                     THEN IF done < Len(plan) THEN done ELSE Len(plan) - 1
                     ELSE 0
             w    == [m EXCEPT !.tx = @ \o sent,
                               !.cb = @ \o [i \in 1..gaps |-> "data"]]
         IN IF done < Len(plan) THEN close(caught(w, "write")) ELSE w
    ELSE m

\* ok: stream.read returned (its result, possibly empty, goes to the callback)
receive(m, ok) ==
    IF m.stream # None
    THEN IF ok
         THEN print(m, "data")
         ELSE close(print(caught(m, "read"), "Connection lost"))
    ELSE m

----------------------------------------------------------------------------
\* What an action leaves in the variables
Commit(m) ==
    /\ state' = m.state
    /\ stream' = m.stream
    /\ loop' = m.loop
    /\ cb' = m.cb
    /\ tx' = m.tx
    /\ ev' = m.ev

\* The while test at the end of an iteration
NextPc(m) == IF m.loop THEN "run" ELSE "done"

HostInit ==
    /\ state = DISCONNECTED
    /\ stream = None
    /\ loop = TRUE
    /\ command = <<>>
    /\ pc = "run"
    /\ from = DISCONNECTED
    /\ cur = NoCmd
    /\ todo = 0
    /\ cb = <<>>
    /\ tx = <<>>
    /\ ev = {}
    /\ during = {}
    /\ nput = 0
    /\ cancel = FALSE

\* self.command.put(message), by the caller's thread
put(message) ==
    /\ ~cancel
    /\ nput < MaxPuts
    /\ Len(command) < MaxQueue
    /\ command' = Append(command, message)
    /\ nput' = nput + 1
    /\ during' = IF pc \in {"upload", "download"}
                 THEN during \cup {message.code} ELSE during
    /\ UNCHANGED <<state, stream, loop, pc, from, cur, todo, cb, tx, ev>>
    /\ UNCHANGED outsideHost

\* The caller's thread: send(message) as one step. The test of self.stream
\* and cancel_read() assign no field; the worker's read is cut short, which
\* receive() shows as any other result of the read.
send(message) == put(message) /\ UNCHANGED cancel

Put == \E message \in Commands : send(message)

\* send(message) as the two steps the worker can come between: the put ...
SendPut == \E message \in Commands : put(message) /\ cancel' = TRUE

\* ... and "if self.stream is not None: self.stream.cancel_read()", with its
\* exceptions passed over
CancelRead ==
    /\ cancel
    /\ cancel' = FALSE
    /\ UNCHANGED <<state, stream, loop, command, pc, from, cur, todo, cb, tx,
                   ev, during, nput>>
    /\ UNCHANGED outsideHost

\* (a slip: a command that cannot be handled yet is queued again)
RunDisconnected_requeueing ==
    /\ pc = "run" /\ loop /\ state = DISCONNECTED
    /\ command # <<>>
    /\ \E opened \in BOOLEAN :
         LET c  == Head(command)
             m1 == on_connect(Machine, c.code, c.data, opened)
             m2 == on_quit(m1, c.code)
             m3 == [m2 EXCEPT !.state = CONNECTING_TELNET]
         IN /\ Commit(m3)
            /\ pc' = NextPc(m3)
            /\ cur' = c
            /\ command' = IF c.code \in {CMD_WRITE_DATA, CMD_UPLOAD_FILE,
                                         CMD_DONWLOAD_FILE}
                          THEN Append(Tail(command), c)
                          ELSE Tail(command)
    /\ during' = {}
    /\ from' = state
    /\ UNCHANGED <<todo, nput, cancel>>
    /\ UNCHANGED outsideHost

\* run(), state DISCONNECTED: command.get() blocks until a command is queued
RunDisconnected ==
    /\ pc = "run" /\ loop /\ state = DISCONNECTED
    /\ command # <<>>
    /\ \E opened \in BOOLEAN :
         LET c  == Head(command)
             m1 == on_connect(Machine, c.code, c.data, opened)
             m2 == on_quit(m1, c.code)
             m3 == [m2 EXCEPT !.state = CONNECTING_TELNET]
         IN /\ Commit(m3)
            /\ pc' = NextPc(m3)
            /\ cur' = c
    /\ command' = Tail(command)
    /\ during' = {}
    /\ from' = state
    /\ UNCHANGED <<todo, nput, cancel>>
    /\ UNCHANGED outsideHost

\* The test of the stream at the end of the CONNECTING_TELNET branch
Polling(m, is_opened) ==
    IF m.stream # None
    THEN IF m.stream = "serial" \/ is_opened
         THEN IF m.stream = "telnet"
              THEN [print(m, "Connected waiting for answer")
                       EXCEPT !.state = TELNET_CONNECTED]
              ELSE [m EXCEPT !.state = SERIAL_CONNECTED]
         ELSE print(m, "progress")
    ELSE [m EXCEPT !.state = DISCONNECTED]

\* run(), state CONNECTING_TELNET
RunConnecting ==
    /\ pc = "run" /\ loop /\ state = CONNECTING_TELNET
    /\ \E opened \in BOOLEAN, is_opened \in BOOLEAN :
         LET got == command # <<>>
             c   == IF got THEN Head(command) ELSE NoCmd
             m1  == on_connect(Machine, c.code, c.data, opened)
             m2  == on_disconnect(m1, c.code)
             m3  == on_quit(m2, c.code)
             m4  == Polling(m3, is_opened)
         IN /\ Commit(m4)
            /\ pc' = NextPc(m4)
            /\ cur' = c
            /\ command' = IF got THEN Tail(command) ELSE command
    /\ during' = {}
    /\ from' = state
    /\ UNCHANGED <<todo, nput, cancel>>
    /\ UNCHANGED outsideHost

IsSession(c) == c.code \in {CMD_UPLOAD_FILE, CMD_DONWLOAD_FILE}

\* run(), a connected state, no command or a command other than upload and
\* download: the handlers in the order run() calls them, then receive()
RunConnected ==
    /\ pc = "run" /\ loop /\ state \in Connected
    /\ command # <<>> => ~IsSession(Head(command))
    /\ LET got == command # <<>>
           c   == IF got THEN Head(command) ELSE NoCmd
           n   == IF c.code = CMD_WRITE_DATA THEN Len(WritePlan(c.size)) ELSE 0
       IN \E done \in 0..n, echo \in BOOLEAN, opened \in BOOLEAN, ok \in BOOLEAN :
            LET m1 == on_write(Machine, c.code, c.size, done, echo)
                m2 == on_connect(m1, c.code, c.data, opened)
                m3 == on_upload_prompt(m2, c.code)
                m4 == on_disconnect(m3, c.code)
                m5 == on_quit(m4, c.code)
                m6 == receive(m5, ok)
            IN /\ Commit(m6)
               /\ pc' = NextPc(m6)
               /\ cur' = c
               /\ command' = IF got THEN Tail(command) ELSE command
    /\ during' = {}
    /\ from' = state
    /\ UNCHANGED <<todo, nput, cancel>>
    /\ UNCHANGED outsideHost

\* The object as it is in the middle of an iteration
Current == [state |-> state, stream |-> stream, loop |-> loop,
            cb |-> cb, tx |-> tx, ev |-> ev]

\* on_upload_file, up to the scan of the directory. request is what
\* UploadCommand.read and the test of the directory gave: "raise", "not found"
\* or "found".
\* A handler that drops the link when the request cannot be read
upload_request_closes(m, request) ==
    IF request = "raise" THEN close(print(caught(m, "upload"), "Upload error"))
    ELSE IF request = "not found" THEN print(m, "not found")
    ELSE m

upload_request(m, request) ==
    IF request = "raise" THEN print(caught(m, "upload"), "Upload error")
    ELSE IF request = "not found" THEN print(m, "not found")
    ELSE m

UploadStart ==
    /\ pc = "run" /\ loop /\ state \in Connected
    /\ command # <<>> /\ Head(command).code = CMD_UPLOAD_FILE
    /\ \E request \in {"raise", "not found", "found"}, filenames \in 0..MaxFiles :
         LET m == upload_request(Machine, request) IN
         /\ request # "found" => filenames = 0
         /\ Commit(m)
         /\ pc' = IF request = "raise" THEN "receive" ELSE "upload"
         /\ todo' = filenames
    /\ cur' = Head(command)
    /\ command' = Tail(command)
    /\ during' = {}
    /\ from' = state
    /\ UNCHANGED <<nput, cancel>>
    /\ UNCHANGED outsideHost

\* Number of the file the loop of on_upload_file is at
FileNo == Cardinality({i \in 1..Len(tx) : tx[i].op = "file"}) + 1

\* One turn of "for filename in filenames": file_writer.write(...), whose
\* result is not read
upload_file(m, n, res) ==
    LET w == [m EXCEPT !.tx = Append(@, Op("file", n, res))]
    IN IF res = "raise" THEN print(caught(w, "upload"), "Upload error") ELSE w

UploadFile ==
    /\ pc = "upload" /\ todo > 0
    /\ \E res \in {"ok", "fail", "raise"} :
         /\ Commit(upload_file(Current, FileNo, res))
         /\ pc' = IF res = "raise" THEN "receive" ELSE "upload"
         /\ todo' = todo - 1
    /\ UNCHANGED <<command, from, cur, during, nput, cancel>>
    /\ UNCHANGED outsideHost

\* An end of session that writes "exit" only after files
upload_exit_after_files(m, ok) ==
    IF \A i \in 1..Len(m.tx) : m.tx[i].op # "file" THEN m
    ELSE IF ok THEN [m EXCEPT !.tx = Append(@, Op("exit", 0, "ok"))]
    ELSE print(caught(m, "upload"), "Upload error")

\* self.stream.write(b"exit\r\n") at the end of the try block
upload_exit(m, ok) ==
    IF ok THEN [m EXCEPT !.tx = Append(@, Op("exit", 0, "ok"))]
    ELSE print(caught(m, "upload"), "Upload error")

UploadExit ==
    /\ pc = "upload" /\ todo = 0
    /\ \E ok \in BOOLEAN : Commit(upload_exit(Current, ok))
    /\ pc' = "receive"
    /\ UNCHANGED <<command, from, cur, todo, during, nput, cancel>>
    /\ UNCHANGED outsideHost

\* A handler that passes what it reads to the receive callback
download_file_forwards(m, res) ==
    LET r == print([m EXCEPT !.tx = Append(@, Op("reader", 0, res))], "data")
    IN IF res = "raise" THEN print(caught(r, "download"), "Download error") ELSE r

\* on_download_file: one call of FileReader.read
download_file(m, res) ==
    LET r == [m EXCEPT !.tx = Append(@, Op("reader", 0, res))]
    IN IF res = "raise" THEN print(caught(r, "download"), "Download error") ELSE r

DownloadStart ==
    /\ pc = "run" /\ loop /\ state \in Connected
    /\ command # <<>> /\ Head(command).code = CMD_DONWLOAD_FILE
    /\ Commit(Machine)
    /\ pc' = "download"
    /\ cur' = Head(command)
    /\ command' = Tail(command)
    /\ during' = {}
    /\ from' = state
    /\ UNCHANGED <<todo, nput, cancel>>
    /\ UNCHANGED outsideHost

DownloadRead ==
    /\ pc = "download"
    /\ \E res \in {"ok", "fail", "raise"} : Commit(download_file(Current, res))
    /\ pc' = "receive"
    /\ UNCHANGED <<command, from, cur, todo, during, nput, cancel>>
    /\ UNCHANGED outsideHost

\* After the handler of an upload or download command has returned: the
\* handlers left in the iteration do not match the command, receive() runs
SessionReceive ==
    /\ pc = "receive"
    /\ \E ok \in BOOLEAN :
         LET m == receive(Current, ok) IN
         /\ Commit(m)
         /\ pc' = NextPc(m)
    /\ UNCHANGED <<command, from, cur, todo, during, nput, cancel>>
    /\ UNCHANGED outsideHost

Worker ==
    \/ RunDisconnected
    \/ RunConnecting
    \/ RunConnected
    \/ UploadStart
    \/ UploadFile
    \/ UploadExit
    \/ DownloadStart
    \/ DownloadRead
    \/ SessionReceive

HostNext == Put \/ Worker

\* The manager with send() in two steps
RaceNext == SendPut \/ CancelRead \/ Worker

----------------------------------------------------------------------------
\* Device: shell.py

\* "\x1B[0c" and "\x1B[?3;2c", as character codes
CAP_QUERY    == <<27, 91, 48, 99>>
CAP_RESPONSE == <<27, 91, 63, 51, 59, 50, 99>>

\* What terminal.getch(duration=1000) can return: nothing within the second,
\* the awaited answer, or other text
Responses ==
    { <<>>,
      CAP_RESPONSE,
      <<27, 91, 63, 49, 59, 50, 99>>,
      <<27, 91, 63, 51, 59, 50>>,
      <<27, 91, 63, 51, 59, 50, 99, 13>>,
      <<27>> }

\* (a slip: the redirection of the output is not tested)
check_cam_flasher_redirected(redirected, answer) ==
    [result |-> (answer = CAP_RESPONSE), asked |-> TRUE]

\* (a slip: any answer that begins like the awaited one is accepted)
check_cam_flasher_prefix(redirected, answer) ==
    IF redirected = None
    THEN [result |-> (Len(answer) >= 6 /\ SubSeq(answer, 1, 6) = SubSeq(CAP_RESPONSE, 1, 6)),
          asked |-> TRUE]
    ELSE [result |-> FALSE, asked |-> FALSE]

\* redirected: stdout_redirected; answer: the value getch returns.
\* result: the value returned; asked: the query was written and getch called.
check_cam_flasher(redirected, answer) ==
    IF redirected = None
    THEN [result |-> (answer = CAP_RESPONSE), asked |-> TRUE]
    ELSE [result |-> FALSE, asked |-> FALSE]

\* print_(message): to the console, or to the file when output is redirected
print_(log, redirected, message) ==
    Append(log, Op(IF redirected = None THEN "print" ELSE "fprint", 0, message))

\* exec_command, from "stdout_redirected = None" to the call of the command:
\* the value stdout_redirected has while the command runs
Redirection(output_filename, opened) ==
    IF output_filename # None /\ opened THEN "file" ELSE None

CheckLog(check) ==
    IF check.asked THEN <<Op("query", 0, "ok"), Op("getch", 0, "ok")>> ELSE <<>>

Refusal == "CamFlasher application required for this command"

\* upload(), down to the try block. capable: what check_cam_flasher returned;
\* asked: it wrote its query; started: the try block is entered.
upload_start(redirected, answer) ==
    LET check == check_cam_flasher(redirected, answer) IN
    [capable |-> check.result,
     asked   |-> check.asked,
     started |-> check.result,
     log |-> IF check.result
             THEN print_(CheckLog(check), redirected, "Upload to device start")
             ELSE print_(CheckLog(check), redirected, Refusal)]

\* (a slip: the result of the check is not tested)
download_start_unchecked(redirected, answer) ==
    LET check == check_cam_flasher(redirected, answer) IN
    [capable |-> check.result,
     asked   |-> check.asked,
     started |-> TRUE,
     log |-> print_(CheckLog(check), redirected, "Download from device start")]

\* download(), down to the try block
download_start(redirected, answer) ==
    LET check == check_cam_flasher(redirected, answer) IN
    [capable |-> check.result,
     asked   |-> check.asked,
     started |-> check.result,
     log |-> IF check.result
             THEN print_(CheckLog(check), redirected, "Download from device start")
             ELSE print_(CheckLog(check), redirected, Refusal)]

Entries == UNION {[1..n -> {"file", "dir"}] : n \in 0..MaxEntries}

DevInit ==
    /\ stdout_redirected = None
    /\ dpc = "prompt"
    /\ dcmd = None
    /\ darg = ""
    /\ response = <<>>
    /\ capable = FALSE
    /\ dfiles = <<>>
    /\ didx = 0
    /\ dtry = 0
    /\ dreads = 0
    /\ dlog = <<>>
    /\ nexec = 0
    /\ shell_exited = FALSE
    /\ consumed = 0

\* exec_command(["upload", ...]) up to the first call into exchange; when the
\* command refuses, up to the end of exec_command
ExecUpload ==
    /\ dpc = "prompt" /\ nexec < MaxExec /\ ~shell_exited
    /\ \E output_filename \in {None, "out"}, opened \in BOOLEAN,
          answer \in Responses, file \in {"", "name"} :
         LET redirected == Redirection(output_filename, opened)
             u == upload_start(redirected, answer)
         IN /\ output_filename = None => opened
            /\ ~u.asked => answer = <<>>
            /\ response' = answer
            /\ darg' = file
            /\ capable' = u.capable
            /\ dlog' = u.log
            /\ dpc' = IF u.started THEN "upload" ELSE "prompt"
            /\ stdout_redirected' = IF u.started THEN redirected ELSE None
    /\ dcmd' = "upload"
    /\ dreads' = 0
    /\ nexec' = nexec + 1
    /\ UNCHANGED <<dfiles, didx, dtry>>
    /\ UNCHANGED <<shell_exited, consumed>>
    /\ UNCHANGED outsideDev

\* The end of upload() and of exec_command: the message, then the finally block
upload_end(log, redirected, failed) ==
    IF failed
    THEN print_(Append(log, Op("syslog", 0, "ok")), redirected, "Upload failed")
    ELSE print_(log, redirected, "Upload end")

\* command.write(file, recursive, stdin, stdout): the request to the host
UploadRequest ==
    /\ dpc = "upload" /\ dreads = 0 /\ ~Has(dlog, Op("request", 0, "ok"))
    /\ \E res \in {"ok", "raise"} :
         LET l == Append(dlog, Op("request", 0, res)) IN
         IF res = "raise"
         THEN /\ dlog' = upload_end(l, stdout_redirected, TRUE)
              /\ dpc' = "prompt"
              /\ stdout_redirected' = None
         ELSE /\ dlog' = l
              /\ UNCHANGED <<dpc, stdout_redirected>>
    /\ UNCHANGED <<dcmd, darg, response, capable, dfiles, didx, dtry, dreads, nexec>>
    /\ UNCHANGED <<shell_exited, consumed>>
    /\ UNCHANGED outsideDev

\* A loop that feeds the watchdog inside "if result"
upload_read_feeds_on_true(log, n, res) ==
    LET r == Append(log, Op("reader", n, res))
    IN IF res = "ok" THEN Append(r, Op("feed", n, "ok")) ELSE r

\* One turn of "while result": FileReader.read, then WatchDog.feed
upload_read(log, n, res) ==
    LET r == Append(log, Op("reader", n, res))
    IN IF res = "raise" THEN r ELSE Append(r, Op("feed", n, "ok"))

UploadRead ==
    /\ dpc = "upload" /\ Has(dlog, Op("request", 0, "ok"))
    /\ \E res \in {"ok", "fail", "raise"} :
         LET l == upload_read(dlog, dreads + 1, res) IN
         /\ res = "ok" => dreads + 1 < MaxReads
         /\ IF res = "ok"
            THEN /\ dlog' = l
                 /\ UNCHANGED <<dpc, stdout_redirected>>
            ELSE /\ dlog' = upload_end(l, stdout_redirected, res = "raise")
                 /\ dpc' = "prompt"
                 /\ stdout_redirected' = None
    /\ dreads' = dreads + 1
    /\ UNCHANGED <<dcmd, darg, response, capable, dfiles, didx, dtry, nexec>>
    /\ UNCHANGED <<shell_exited, consumed>>
    /\ UNCHANGED outsideDev

\* download(), the except block: searchfile raised before its own try block
\* (filesystem.normpath, filesystem.abspath)
download_failed(log, redirected) ==
    print_(log \o <<Op("normpath", 0, "raise"), Op("syslog", 0, "ok")>>,
           redirected, "Download failed")

\* exec_command(["download", ...]) up to the first call of Exporter.show (the
\* scan has found entries); when the command refuses or searchfile raises at
\* once, up to the end of exec_command
ExecDownload ==
    /\ dpc = "prompt" /\ nexec < MaxExec /\ ~shell_exited
    /\ \E output_filename \in {None, "out"}, opened \in BOOLEAN,
          answer \in Responses, file \in {"", "name"}, entries \in Entries,
          normed \in BOOLEAN :
         LET redirected == Redirection(output_filename, opened)
             d == download_start(redirected, answer)
             searching == d.started /\ normed
         IN /\ output_filename = None => opened
            /\ ~d.asked => answer = <<>>
            /\ ~d.started => normed
            /\ ~searching => entries = <<>>
            /\ response' = answer
            /\ darg' = file
            /\ capable' = d.capable
            /\ dlog' = IF d.started /\ ~normed
                       THEN download_failed(d.log, redirected)
                       ELSE d.log
            /\ dfiles' = entries
            /\ dpc' = IF ~searching THEN "prompt"
                      ELSE IF entries = <<>> THEN "searched" ELSE "download"
            /\ stdout_redirected' = IF searching THEN redirected ELSE None
    /\ dcmd' = "download"
    /\ didx' = 1
    /\ dtry' = 0
    /\ nexec' = nexec + 1
    /\ UNCHANGED dreads
    /\ UNCHANGED <<shell_exited, consumed>>
    /\ UNCHANGED outsideDev

\* (a slip: the marker is written before the test of the path)
send_file_marking_first(n, info, exists, res) ==
    IF info = "raise"
    THEN [result |-> FALSE, raised |-> TRUE, log |-> <<Op("fileinfo", n, "raise")>>]
    ELSE IF info = "file" /\ exists
    THEN [result |-> (res = "ok"), raised |-> (res = "raise"),
          log |-> <<Op("marker", n, "ok"), Op("writer", n, res)>>
                  \o (IF res = "raise" THEN <<>> ELSE <<Op("feed", n, "ok")>>)]
    ELSE [result |-> TRUE, raised |-> FALSE,
          log |-> <<Op("marker", n, "ok"), Op("skip", n, info)>>]

\* Exporter.send_file(path) for entry n. info: what filesystem.fileinfo gave
\* ("file", "dir" or "raise"); exists: filesystem.exists(path); res: what
\* FileWriter.write did ("ok": True, "fail": False, "raise").
send_file(n, info, exists, res) ==
    IF info = "raise"
    THEN [result |-> FALSE, raised |-> TRUE, log |-> <<Op("fileinfo", n, "raise")>>]
    ELSE IF info = "file" /\ exists
    THEN [result |-> (res = "ok"), raised |-> (res = "raise"),
          log |-> <<Op("marker", n, "ok"), Op("writer", n, res)>>
                  \o (IF res = "raise" THEN <<>> ELSE <<Op("feed", n, "ok")>>)]
    ELSE [result |-> TRUE, raised |-> FALSE, log |-> <<Op("skip", n, info)>>]

Retries == 3

\* Exporter.show: after a call of send_file that returned, the for loop goes
\* on to another call
show_again(result, tries) == ~result /\ tries < Retries

\* One call of send_file by show, and what the loops around it do next
DownloadSend ==
    /\ dpc = "download" /\ didx <= Len(dfiles)
    /\ \E info \in {dfiles[didx], "raise"}, exists \in BOOLEAN,
          res \in {"ok", "fail", "raise"} :
         LET s == send_file(didx, info, exists, res) IN
         /\ info # "file" => exists
         /\ ~(info = "file" /\ exists) => res = "ok"
         /\ IF s.raised
            THEN \* caught by searchfile: print_(err)
                 /\ dlog' = print_(dlog \o s.log, stdout_redirected, "err")
                 /\ dpc' = "searched"
                 /\ UNCHANGED <<didx, dtry>>
            ELSE /\ dlog' = dlog \o s.log
                 /\ IF show_again(s.result, dtry + 1)
                    THEN /\ dtry' = dtry + 1
                         /\ UNCHANGED <<didx, dpc>>
                    ELSE /\ dtry' = 0
                         /\ didx' = didx + 1
                         /\ dpc' = IF didx = Len(dfiles) THEN "searched"
                                   ELSE "download"
    /\ UNCHANGED <<stdout_redirected, dcmd, darg, response, capable, dfiles,
                   dreads, nexec>>
    /\ UNCHANGED <<shell_exited, consumed>>
    /\ UNCHANGED outsideDev

\* The scan was cut short by an exception
Aborted == Has(dlog, Op("print", 0, "err")) \/ Has(dlog, Op("fprint", 0, "err"))

\* The end of searchfile, of download() and of exec_command. filenames: the
\* number of names the scan returned.
download_end(log, redirected, file, filenames) ==
    LET l == IF filenames = 0 /\ file # ""
             THEN print_(log, redirected, "No such file or directory")
             ELSE log
    IN print_(l, redirected, "Download end")

DownloadEnd ==
    /\ dpc = "searched"
    /\ LET filenames == IF Aborted THEN 0
                        ELSE Cardinality({i \in 1..Len(dfiles) : dfiles[i] = "file"})
       IN dlog' = download_end(dlog, stdout_redirected, darg, filenames)
    /\ dpc' = "prompt"
    /\ stdout_redirected' = None
    /\ UNCHANGED <<dcmd, darg, response, capable, dfiles, didx, dtry, dreads, nexec>>
    /\ UNCHANGED <<shell_exited, consumed>>
    /\ UNCHANGED outsideDev

DevNext ==
    \/ ExecUpload
    \/ UploadRequest
    \/ UploadRead
    \/ ExecDownload
    \/ DownloadSend
    \/ DownloadEnd

----------------------------------------------------------------------------
\* The link between the two: what the host writes on the stream is what the
\* device reads on its standard input

\* The number of the command the manager is handling (commands taken so far)
CommandId == nput - Len(command)

\* The manager has written "exit\r\n" for the command it is handling and the
\* device has not read it yet
Pending ==
    /\ \E i \in 1..Len(tx) : tx[i].op = "exit"
    /\ consumed < CommandId

\* upload(): FileReader.read meets the termination text, returns False and the
\* loop ends
LoopTakesExit ==
    /\ dpc = "upload" /\ Has(dlog, Op("request", 0, "ok"))
    /\ Pending
    /\ dlog' = upload_end(upload_read(dlog, dreads + 1, "fail"),
                          stdout_redirected, FALSE)
    /\ dpc' = "prompt"
    /\ stdout_redirected' = None
    /\ dreads' = dreads + 1
    /\ consumed' = CommandId
    /\ UNCHANGED <<dcmd, darg, response, capable, dfiles, didx, dtry, nexec,
                   shell_exited>>
    /\ UNCHANGED outsideDev

\* sh(): input() returns the line "exit", parse_command_line and exec_command
\* call exit()
ShellTakesExit ==
    /\ dpc = "prompt" /\ ~shell_exited
    /\ Pending
    /\ shell_exited' = TRUE
    /\ consumed' = CommandId
    /\ UNCHANGED <<stdout_redirected, dpc, dcmd, darg, response, capable,
                   dfiles, didx, dtry, dreads, dlog, nexec>>
    /\ UNCHANGED outsideDev

\* The caller connects the serial link and asks for uploads
LinkCommands ==
    {c \in Commands : \/ c.code = CMD_CONNECT_SERIAL /\ c.data # ""
                      \/ c.code = CMD_UPLOAD_FILE}

LinkPut == \E message \in LinkCommands : send(message)

\* A call of FileReader.read that meets file data (True) or raises; False is
\* the answer to the termination text only
LinkUploadRead ==
    /\ UploadRead
    /\ dpc' = "prompt" => Has(dlog', Op("syslog", 0, "ok"))

\* on_upload_file reads the request of the device: UploadCommand.read gives
\* one only when the device has written it and its upload has not ended
LinkUploadStart ==
    /\ UploadStart
    /\ pc' = "upload"
          => /\ dcmd = "upload" /\ Has(dlog, Op("request", 0, "ok"))
             /\ ~Has(dlog, Op("print", 0, "Upload end"))

LinkNext ==
    \/ LinkPut
    \/ RunDisconnected
    \/ RunConnecting
    \/ RunConnected
    \/ LinkUploadStart
    \/ UploadFile
    \/ UploadExit
    \/ SessionReceive
    \/ ExecUpload
    \/ UploadRequest
    \/ LinkUploadRead
    \/ LoopTakesExit
    \/ ShellTakesExit

----------------------------------------------------------------------------
\* User part: modules/lib/server/user.py

\* Names and passwords a caller can give (bytes)
Users == {"", "bob", "Bob"}
Passwords == {"", "pw1", "pw2"}

\* user.lower()
Lower(u) == IF u = "Bob" THEN "bob" ELSE u

\* encryption.gethash(password): the hexadecimal digest of the password
gethash(password) == "hash(" \o password \o ")"

EMPTY_PASSWORD == gethash("")

\* User.check(user, password) with log True. inst: User.instance. login: the
\* value given to login_state, or "same".
check(inst, user, password) ==
    LET u == Lower(user) IN
    IF inst.user = ""
    THEN [result |-> TRUE, login |-> "same"]
    ELSE IF u = inst.user
    THEN IF gethash(password) = inst.password
         THEN [result |-> TRUE, login |-> "True"]
         ELSE [result |-> FALSE, login |-> "False"]
    ELSE [result |-> FALSE, login |-> IF u # "" THEN "False" ELSE "same"]

\* (a slip: the two new passwords are not compared)
change_without_renew(inst, user, current_password, new_password, renew_password) ==
    LET u == Lower(user)
        c == check(inst, u, current_password)
    IN IF c.result
       THEN [ret |-> "True", saved |-> TRUE, login |-> c.login,
             inst |-> IF new_password = ""
                      THEN [user |-> "", password |-> EMPTY_PASSWORD]
                      ELSE [user |-> u, password |-> gethash(new_password)]]
       ELSE [ret |-> "False", saved |-> FALSE, login |-> c.login, inst |-> inst]

\* User.change(user, current_password, new_password, renew_password): the
\* value returned, whether save() was called, and the instance afterwards
change(inst, user, current_password, new_password, renew_password) ==
    LET u == Lower(user)
        c == check(inst, u, current_password)
    IN IF c.result
       THEN IF new_password = renew_password
            THEN [ret |-> "True", saved |-> TRUE, login |-> c.login,
                  inst |-> IF new_password = ""
                           THEN [user |-> "", password |-> EMPTY_PASSWORD]
                           ELSE [user |-> u, password |-> gethash(new_password)]]
            ELSE [ret |-> "None", saved |-> FALSE, login |-> c.login, inst |-> inst]
       ELSE [ret |-> "False", saved |-> FALSE, login |-> c.login, inst |-> inst]

NoCall == [user |-> "", current |-> "", new |-> "", renew |-> "",
           old |-> [user |-> "", password |-> EMPTY_PASSWORD],
           ret |-> "-", saved |-> FALSE]

\* UserConfig.__init__ when no configuration was saved before
UserInit ==
    /\ instance = [user |-> "", password |-> EMPTY_PASSWORD]
    /\ login_state = "None"
    /\ last = NoCall

\* A call of User.change
UserChange ==
    /\ \E user \in Users, current \in Passwords, new \in Passwords,
          renew \in Passwords :
         LET r == change(instance, user, current, new, renew) IN
         /\ instance' = r.inst
         /\ login_state' = IF r.login = "same" THEN login_state ELSE r.login
         /\ last' = [user |-> user, current |-> current, new |-> new,
                     renew |-> renew, old |-> instance,
                     ret |-> r.ret, saved |-> r.saved]
    /\ UNCHANGED outsideUser

\* User.get_login_state(): the state is read and reset
UserLoginState ==
    /\ login_state # "None"
    /\ login_state' = "None"
    /\ UNCHANGED <<instance, last>>
    /\ UNCHANGED outsideUser

UserNext == UserChange \/ UserLoginState

----------------------------------------------------------------------------
\* Host directory part: the directory test of StreamThread.on_upload_file
\* (tools/camflasher/streamdevice.py). A path string is the sequence of its
\* characters, so that str.find and os.path.split act on characters as they
\* do in the code.

MaxDepth == 2      \* components of the path of one upload request

UP == <<".", ".">>
W == <<"w">>
W2 == <<"w", "2">>
S == <<"s">>
STAR == <<"*">>

\* The names a request is made of
Names == {UP, W, W2, S}

\* "a/b/c" for the components a, b, c
RECURSIVE Relative(_)
Relative(comps) ==
    IF comps = <<>> THEN <<>>
    ELSE IF Len(comps) = 1 THEN comps[1]
    ELSE comps[1] \o <<"/">> \o Relative(Tail(comps))

\* The position of the first "/" of s at or after i, Len(s) + 1 when none
RECURSIVE Slash(_, _)
Slash(s, i) ==
    IF i > Len(s) THEN i
    ELSE IF s[i] = "/" THEN i
    ELSE Slash(s, i + 1)

\* The components of a path string: empty ones and "." are dropped
RECURSIVE Comps(_)
Comps(s) ==
    IF s = <<>> THEN <<>>
    ELSE LET i == Slash(s, 1)
             name == SubSeq(s, 1, i - 1)
             rest == Comps(SubSeq(s, i + 1, Len(s)))
         IN IF name = <<>> \/ name = <<".">> THEN rest ELSE <<name>> \o rest

\* ".." removes the component before it; at the root it is dropped
RECURSIVE Resolve(_, _)
Resolve(stack, comps) ==
    IF comps = <<>> THEN stack
    ELSE IF Head(comps) = UP
    THEN Resolve(IF stack = <<>> THEN <<>>
                 ELSE SubSeq(stack, 1, Len(stack) - 1), Tail(comps))
    ELSE Resolve(Append(stack, Head(comps)), Tail(comps))

\* "/a/b/c" for the components a, b, c and "/" for none
RECURSIVE Absolute(_)
Absolute(comps) ==
    IF comps = <<>> THEN <<"/">>
    ELSE IF Len(comps) = 1 THEN <<"/">> \o comps[1]
    ELSE <<"/">> \o comps[1] \o Absolute(Tail(comps))

\* os.path.normpath of an absolute path
normpath(s) == Absolute(Resolve(<<>>, Comps(s)))

\* The position of the last "/" of s at or before i, 0 when none
RECURSIVE LastSlash(_, _)
LastSlash(s, i) ==
    IF i = 0 THEN 0
    ELSE IF s[i] = "/" THEN i
    ELSE LastSlash(s, i - 1)

\* s without its trailing "/"
RECURSIVE rstrip(_)
rstrip(s) ==
    IF s # <<>> /\ s[Len(s)] = "/" THEN rstrip(SubSeq(s, 1, Len(s) - 1))
    ELSE s

\* The first result of os.path.split: what stands before the last "/",
\* without trailing "/" unless it is made of "/" only
dirname(s) ==
    LET head == SubSeq(s, 1, LastSlash(s, Len(s)))
    IN IF rstrip(head) = <<>> THEN head ELSE rstrip(head)

\* s.find(sub) == 0
find0(s, sub) == Len(sub) <= Len(s) /\ SubSeq(s, 1, Len(sub)) = sub

\* The working directory of the host
Directory == Absolute(<<W>>)

\* The directories a host may have beside "/" and the working directory
Optional == {Absolute(<<W, S>>), Absolute(<<W2>>), Absolute(<<W2, S>>)}
Trees == {{Absolute(<<>>), Directory} \cup o : o \in SUBSET Optional}

\* filesystem.isdir and os.path.exists on the directories of t
isdir(t, s) == normpath(s) \in t
exists(t, s) == normpath(s) \in t

\* on_upload_file, from the request read to the scan: the directory whose
\* files are sent, "" when the request is answered "not found".
upload_directory(t, directory, path, pattern) ==
    LET target == normpath(directory \o <<"/">> \o path \o <<"/">> \o pattern)
        target_dir == IF isdir(t, target) THEN target \o <<"/", "*">>
                      ELSE target
        directory_ == dirname(target_dir)
    IN IF find0(directory_, normpath(directory)) /\ exists(t, directory_)
       THEN directory_ ELSE <<>>

\* The paths and patterns of a request
Seqs(n) == UNION {[1..k -> Names] : k \in 0..n}
Paths == {Relative(c) : c \in Seqs(MaxDepth)}
Patterns == {STAR, UP, S}

NoRequest == [path |-> <<>>, pattern |-> <<>>]
NoScan == [done |-> FALSE, directory_ |-> <<>>, sent |-> 0]

\* No request was read yet; the host has any of the trees
DirInit ==
    /\ tree \in Trees
    /\ wanted = NoRequest
    /\ scan = NoScan

\* The same on the host whose tree is the largest one
DirIdle ==
    /\ tree = {Absolute(<<>>), Directory} \cup Optional
    /\ wanted = NoRequest
    /\ scan = NoScan

\* One upload request of the device, answered by the host. files: the files
\* scandir finds in the directory.
UploadScan ==
    /\ \E path \in Paths, pattern \in Patterns, files \in 0..MaxFiles :
         LET d == upload_directory(tree, Directory, path, pattern) IN
         /\ wanted' = [path |-> path, pattern |-> pattern]
         /\ scan' = [done |-> TRUE, directory_ |-> d,
                     sent |-> IF d = <<>> THEN 0 ELSE files]
    /\ UNCHANGED tree
    /\ UNCHANGED outsideDir

DirNext == UploadScan

----------------------------------------------------------------------------
\* exec_command of modules/lib/shell/shell.py, for any command

NoArgs == [named |-> FALSE, output_filename |-> None]

\* The finally clause: the redirection file is closed, the global reset.
\* A clause that closes the file and keeps the global
exec_finally_keeping(redirected, file) ==
    [stdout_redirected |-> redirected,
     file |-> IF redirected # None THEN "closed" ELSE file]

exec_finally(redirected, file) ==
    [stdout_redirected |-> None,
     file |-> IF redirected # None THEN "closed" ELSE file]

\* The except clauses: what is printed for the exception the command raised
exec_except(log, redirected, raised) ==
    IF raised = "TypeError"
    THEN print_(Append(log, Op("syslog", 0, "ok")), redirected,
                "Missing parameters")
    ELSE IF raised = "KeyboardInterrupt"
    THEN print_(Append(log, Op("syslog", 0, "ok")), redirected, " [Canceled]")
    ELSE Append(log, Op("syslog", 0, "ok"))

ExecInit ==
    /\ xpc = "idle"
    /\ xargs = NoArgs
    /\ xfile = "none"
    /\ xres = None
    /\ xlog = <<>>
    /\ xcount = 0

\* The call, down to the second try. parsing: whether the arguments name a
\* command with legal options and parameters; named: whether there is a
\* command name; output_filename: the name after ">".
ExecParse ==
    /\ xpc = "idle" /\ xcount < MaxExec
    /\ xcount' = xcount + 1
    /\ xfile' = "none"
    /\ xres' = None
    /\ \E parsing \in {"ok", "rejected"}, named \in BOOLEAN,
          output_filename \in {None, "file"} :
         /\ ~named => output_filename = None /\ parsing = "ok"
         /\ xargs' = [named |-> named, output_filename |-> output_filename]
         /\ IF parsing = "rejected"
            THEN /\ xlog' = print_(<<>>, stdout_redirected, "err")
                 /\ xpc' = "idle"
                 /\ UNCHANGED stdout_redirected
            ELSE /\ xlog' = <<>>
                 /\ xpc' = "try"
                 /\ stdout_redirected' = None
    /\ UNCHANGED outsideExec

\* The opening of the output file. opened: whether open() returned a file.
ExecOpen ==
    /\ xpc = "try"
    /\ IF xargs.named
       THEN \E opened \in BOOLEAN :
              /\ xargs.output_filename = None => ~opened
              /\ stdout_redirected' = Redirection(xargs.output_filename, opened)
              /\ xfile' = IF opened THEN "open" ELSE "none"
              /\ xpc' = "call"
       ELSE /\ xpc' = "finally"
            /\ UNCHANGED <<stdout_redirected, xfile>>
    /\ UNCHANGED <<xargs, xres, xlog, xcount>>
    /\ UNCHANGED outsideExec

\* command_function(**flags). result: how it ends; prints: whether it printed.
ExecCall ==
    /\ xpc = "call"
    /\ \E result \in {"ok", "TypeError", "KeyboardInterrupt", "Exception",
                      "SystemExit"}, prints \in BOOLEAN :
         /\ xres' = result
         /\ xlog' = IF prints THEN print_(xlog, stdout_redirected, "output")
                    ELSE xlog
         /\ xpc' = IF result \in {"ok", "SystemExit"} THEN "finally"
                   ELSE "except"
    /\ UNCHANGED <<stdout_redirected, xargs, xfile, xcount>>
    /\ UNCHANGED outsideExec

\* The except clause of the exception raised. It may raise itself: the finally
\* clause runs in both cases.
ExecExcept ==
    /\ xpc = "except"
    /\ \E raises \in BOOLEAN :
         xlog' = IF raises THEN Append(xlog, Op("syslog", 0, "raise"))
                 ELSE exec_except(xlog, stdout_redirected, xres)
    /\ xpc' = "finally"
    /\ UNCHANGED <<stdout_redirected, xargs, xfile, xres, xcount>>
    /\ UNCHANGED outsideExec

ExecFinally ==
    /\ xpc = "finally"
    /\ LET f == exec_finally(stdout_redirected, xfile) IN
         /\ stdout_redirected' = f.stdout_redirected
         /\ xfile' = f.file
    /\ xpc' = "idle"
    /\ UNCHANGED <<xargs, xres, xlog, xcount>>
    /\ UNCHANGED outsideExec

ExecNext == ExecParse \/ ExecOpen \/ ExecCall \/ ExecExcept \/ ExecFinally

----------------------------------------------------------------------------
\* Camera part: class Reservation of modules/lib/video/video.py. The body of
\* acquire and of unreserve runs under self.lock and holds no await: a call
\* is one step.

MaxSuspension == 1 \* the largest suspension a call gives
MaxCount == 2      \* the largest count a holder reaches
MaxTimeout == 2    \* the largest timeout of reserve

NoId == 0          \* identifier None
NoneInt == -1      \* suspension None, suspended None

Objects == {"A", "B"}

\* id(object_): distinct for distinct live objects
id(object_) == IF object_ = "A" THEN 1 ELSE 2

Suspensions == {NoneInt} \cup 0..MaxSuspension

Reservation == [identifier |-> identifier, count |-> count,
                suspended |-> suspended]

\* The result and the fields after acquire(object_, suspension). Comparing
\* None with 0 raises TypeError; the lock is released, nothing is assigned.
\* An acquire that lets any object join the holder
acquire_joining(r, object_, suspension) ==
    IF r.identifier = NoId
    THEN IF suspension = NoneInt
         THEN IF r.suspended = NoneInt
              THEN r @@ [result |-> "TypeError"]
              ELSE IF r.suspended <= 0
              THEN [identifier |-> id(object_), count |-> 1, suspended |-> 0,
                    result |-> "True"]
              ELSE [r EXCEPT !.suspended = @ - 1] @@ [result |-> "False"]
         ELSE [identifier |-> id(object_), count |-> 1,
               suspended |-> suspension, result |-> "True"]
    ELSE [identifier |-> r.identifier, count |-> r.count + 1,
          suspended |-> suspension, result |-> "True"]

acquire(r, object_, suspension) ==
    IF r.identifier = NoId
    THEN IF suspension = NoneInt
         THEN IF r.suspended = NoneInt
              THEN r @@ [result |-> "TypeError"]
              ELSE IF r.suspended <= 0
              THEN [identifier |-> id(object_), count |-> 1, suspended |-> 0,
                    result |-> "True"]
              ELSE [r EXCEPT !.suspended = @ - 1] @@ [result |-> "False"]
         ELSE [identifier |-> id(object_), count |-> 1,
               suspended |-> suspension, result |-> "True"]
    ELSE IF r.identifier = id(object_)
    THEN [identifier |-> r.identifier, count |-> r.count + 1,
          suspended |-> suspension, result |-> "True"]
    ELSE r @@ [result |-> "False"]

\* The result and the fields after unreserve(object_).
\* An unreserve that frees the reservation whatever the count
unreserve_at_once(r, object_) ==
    IF r.identifier = id(object_)
    THEN [r EXCEPT !.identifier = NoId, !.count = 0] @@ [result |-> "True"]
    ELSE r @@ [result |-> "False"]

unreserve(r, object_) ==
    IF r.identifier = id(object_)
    THEN IF r.count <= 1
         THEN [r EXCEPT !.identifier = NoId, !.count = 0]
                  @@ [result |-> "True"]
         ELSE [r EXCEPT !.count = @ - 1] @@ [result |-> "True"]
    ELSE r @@ [result |-> "False"]

NoCallYet == [op |-> "none", object_ |-> "A", suspension |-> NoneInt,
              result |-> "None", returned |-> TRUE]

ResInit ==
    /\ identifier = NoId
    /\ count = 0
    /\ suspended = 0
    /\ waiting = [o \in Objects |-> 0]
    /\ wsusp = [o \in Objects |-> NoneInt]
    /\ rlast = NoCallYet
    /\ taken = NoneInt
    /\ uniform = TRUE
    /\ since = 0
    /\ held = 0

\* What one acquire does to the fields and to the record of the behaviour
Acquired(op, object_, suspension, returned) ==
    LET a == acquire(Reservation, object_, suspension) IN
    /\ identifier = id(object_) => count < MaxCount
    /\ identifier' = a.identifier
    /\ count' = a.count
    /\ suspended' = a.suspended
    /\ rlast' = [op |-> op, object_ |-> object_, suspension |-> suspension,
                 result |-> a.result,
                 returned |-> returned \/ a.result # "False"]
    /\ held' = IF a.result = "True" THEN held + 1 ELSE held
    /\ taken' = IF identifier = NoId /\ a.result = "True" THEN suspension
                ELSE taken
    /\ uniform' = IF identifier = NoId /\ a.result = "True" THEN TRUE
                  ELSE IF a.result = "True" THEN uniform /\ suspension = taken
                  ELSE uniform
    /\ since' = IF identifier = NoId /\ suspension = NoneInt
                   /\ since <= MaxSuspension
                THEN since + 1 ELSE since

\* A call of acquire
Acquire ==
    /\ \E object_ \in Objects, suspension \in Suspensions :
         Acquired("acquire", object_, suspension, TRUE)
    /\ UNCHANGED <<waiting, wsusp>>
    /\ UNCHANGED outsideRes

\* A call of reserve, down to its first sleep or to its return
Reserve ==
    /\ \E object_ \in Objects, suspension \in Suspensions,
          timeout \in 0..MaxTimeout :
         /\ waiting[object_] = 0
         /\ Acquired("reserve", object_, suspension, timeout - 1 <= 0)
         /\ waiting' = [waiting EXCEPT ![object_] =
                          IF rlast'.returned THEN 0 ELSE timeout - 1]
         /\ wsusp' = [wsusp EXCEPT ![object_] =
                          IF rlast'.returned THEN NoneInt ELSE suspension]
    /\ UNCHANGED outsideRes

\* The next turn of the loop of reserve, after the sleep
ReserveAgain ==
    /\ \E object_ \in Objects :
         /\ waiting[object_] > 0
         /\ Acquired("reserve", object_, wsusp[object_],
                     waiting[object_] - 1 <= 0)
         /\ waiting' = [waiting EXCEPT ![object_] =
                          IF rlast'.returned THEN 0 ELSE @ - 1]
         /\ wsusp' = [wsusp EXCEPT ![object_] =
                          IF rlast'.returned THEN NoneInt ELSE @]
    /\ UNCHANGED outsideRes

\* A call of unreserve
Unreserve ==
    /\ \E object_ \in Objects :
         LET u == unreserve(Reservation, object_) IN
         /\ identifier' = u.identifier
         /\ count' = u.count
         /\ suspended' = u.suspended
         /\ rlast' = [op |-> "unreserve", object_ |-> object_,
                      suspension |-> NoneInt, result |-> u.result,
                      returned |-> TRUE]
         /\ held' = IF u.result = "True" THEN held - 1 ELSE held
         /\ since' = IF u.identifier = NoId /\ identifier # NoId THEN 0
                     ELSE since
    /\ UNCHANGED <<waiting, wsusp, taken, uniform>>
    /\ UNCHANGED outsideRes

ResNext == Acquire \/ Reserve \/ ReserveAgain \/ Unreserve

----------------------------------------------------------------------------
\* Specifications

Init == HostInit /\ DevInit /\ UserInit /\ DirIdle /\ ExecInit /\ ResInit

HostSpec == Init /\ [][HostNext]_vars

DevSpec == Init /\ [][DevNext]_vars

\* The worker is a thread of its own: a step it can take is eventually taken
HostFairSpec == HostSpec /\ WF_vars(Worker)

RaceSpec == Init /\ [][RaceNext]_vars

UserSpec == Init /\ [][UserNext]_vars

\* The manager and the shell on the two ends of one serial link, for uploads
LinkSpec == Init /\ [][LinkNext]_vars

\* The directory test, on every tree
AnyTreeInit ==
    HostInit /\ DevInit /\ UserInit /\ DirInit /\ ExecInit /\ ResInit

DirSpec == AnyTreeInit /\ [][DirNext]_vars

ExecSpec == Init /\ [][ExecNext]_vars

ResSpec == Init /\ [][ResNext]_vars

\* The manager and the shell share no variable. A run of Spec is a run of the
\* manager beside an idle shell or a run of the shell beside an idle manager,
\* for the properties that speak of both programs.
Next ==
    \/ nexec = 0 /\ HostNext
    \/ nput = 0 /\ DevNext

Spec == Init /\ [][Next]_vars

----------------------------------------------------------------------------
\* Readings of the iteration's records
Ops(op) == {i \in 1..Len(tx) : tx[i].op = op}
Attempts(n) == {i \in Ops("file") : tx[i].n = n}
HasQuit == \E i \in 1..Len(command) : command[i].code = CMD_QUIT
IterationOver == pc \in {"run", "done"}
HandlerReturned == pc \in {"receive", "run", "done"}
\* The current iteration ran the upload (download) handler's body
Uploading == from \in Connected /\ cur.code = CMD_UPLOAD_FILE
Downloading == from \in Connected /\ cur.code = CMD_DONWLOAD_FILE

\* C1 (as claimed): an iteration in which a read or a write on the stream
\* raised (in receive, in on_write, or in the upload / download handler) ends
\* in DISCONNECTED, with no stream, and with the link-loss message delivered
\* to the receive callback.
C1_TransportErrorDisconnects ==
    (IterationOver /\ ev \cap {"read", "write", "upload", "download"} # {})
        => /\ state = DISCONNECTED
           /\ stream = None
           /\ Has(cb, "Connection lost")

\* C2 (as claimed): the iteration that dequeues, in DISCONNECTED, a connect
\* command whose transport cannot be opened leaves the manager DISCONNECTED
\* with no stream and delivers a message to the receive callback.
C2_FailedConnectReported ==
    [][ ( /\ pc = "run" /\ state = DISCONNECTED /\ command # <<>>
          /\ Head(command).code \in {CMD_CONNECT_SERIAL, CMD_CONNECT_TELNET}
          /\ command' = Tail(command)
          /\ "open" \in ev' )
        => (state' = DISCONNECTED /\ stream' = None /\ cb' # <<>>) ]_vars

C4_DisconnectAbortsSession ==
    (pc = "receive" /\ (Uploading \/ Downloading) /\ ev = {}
        /\ CMD_DISCONNECT \in during)
        => (state = DISCONNECTED /\ stream = None)

\* C5 (as claimed): when the handler of an upload command has returned, the
\* termination command has been written exactly once, as the last operation
\* on the stream, after every matching file was passed to the sender.
C5_ExitOnceAfterFiles ==
    (HandlerReturned /\ Uploading)
        => /\ Cardinality(Ops("exit")) = 1
           /\ \A i \in Ops("file") : \A j \in Ops("exit") : i < j
           /\ todo = 0

\* C6 (as claimed): every upload command the host has handled, also one whose
\* handler caught an error, has written the termination command that releases
\* the device from its receive loop.
C6_UploadReleasesDevice ==
    (IterationOver /\ Uploading) => Ops("exit") # {}

\* Readings of the device's log
DevOps(op) == {i \in 1..Len(dlog) : dlog[i].op = op}
Transfers == DevOps("request") \cup DevOps("reader") \cup DevOps("marker")
             \cup DevOps("writer")
Asked == DevOps("query") # {}
NotCheck(e) == e.op \notin {"query", "getch"}
Sends(n) == {i \in DevOps("writer") : dlog[i].n = n}
DownloadOver == dcmd = "download" /\ capable /\ dpc = "prompt"

\* C7: upload and download write no request, call no file reader or file
\* writer and write no start-of-file marker unless check_cam_flasher returned
\* True to them; when it returned False the command has ended, and all it
\* did besides the check is to print the refusal.
C7_NoTransferWithoutCapability ==
    dcmd # None =>
        /\ Transfers # {} => capable
        /\ ~capable =>
              /\ dpc = "prompt"
              /\ stdout_redirected = None
              /\ LET did == SelectSeq(dlog, NotCheck)
                 IN Len(did) = 1 /\ did[1].op \in {"print", "fprint"}
                    /\ did[1].res = Refusal

\* a download refused on a wrong answer, after an earlier command
C7_Witness ==
    /\ dcmd = "download" /\ nexec = MaxExec /\ ~capable
    /\ response \notin {<<>>, CAP_RESPONSE}
    /\ Has(dlog, Op("print", 0, Refusal))

\* C8: check_cam_flasher returns True only when the answer read within the
\* wait is exactly the capability response; with no answer, or any other
\* one, it returns False and the command starts no session.
C8_CapableOnlyOnExactResponse ==
    dcmd # None =>
        /\ capable => (Asked /\ response = CAP_RESPONSE)
        /\ response # CAP_RESPONSE =>
              (~capable /\ dpc = "prompt" /\ Transfers = {})

\* the peer did not answer the query within the wait
C8_Witness ==
    /\ dcmd = "upload" /\ Asked /\ response = <<>>
    /\ ~capable /\ dpc = "prompt"

\* C9 (as claimed): when a download has ended, every enumerated file (but one
\* found missing, or whose information could not be read, at its turn) was
\* sent at least once and at most 3 times, each send but the first following
\* a send that returned failure.
C9_EachFileSentOneToThreeTimes ==
    DownloadOver =>
        \A n \in 1..Len(dfiles) :
            (dfiles[n] = "file" /\ ~Has(dlog, Op("skip", n, "file"))
                /\ ~Has(dlog, Op("fileinfo", n, "raise")))
                => /\ Cardinality(Sends(n)) \in 1..Retries
                   /\ \A i \in Sends(n), j \in Sends(n) :
                         i < j => dlog[i].res = "fail"

\* C10 (as claimed): when the upload handler has returned (here: without an
\* exception), every file whose send failed was sent again until it succeeded
\* or had been sent 3 times.
C10_HostRetriesFailedFile ==
    (HandlerReturned /\ Uploading /\ ev \cap {"upload"} = {})
        => \A i \in Ops("file") :
              tx[i].res = "fail"
                 => \/ Cardinality(Attempts(tx[i].n)) = 3
                    \/ \E j \in Attempts(tx[i].n) : tx[j].res = "ok"

\* Readings of the device log for the claims below
Printed(msg) == {i \in 1..Len(dlog) : dlog[i].op \in {"print", "fprint"}
                                       /\ dlog[i].res = msg}
Reports == {i \in 1..Len(dlog) : \/ dlog[i].op = "syslog"
                                 \/ /\ dlog[i].op \in {"print", "fprint"}
                                    /\ dlog[i].res # "Download end"}
FailedAll(n) == /\ Cardinality(Sends(n)) = Retries
                /\ \A i \in Sends(n) : dlog[i].res = "fail"
Raised == \E i \in 1..Len(dlog) : dlog[i].res = "raise"
RaisedOn(n) == \E i \in 1..Len(dlog) : dlog[i].n = n /\ dlog[i].res = "raise"
CommandOver == dpc = "prompt" /\ capable

\* C11 (as claimed): when a download has ended, a file whose 3 sends all
\* failed did not stop the session (the next entry, if any, had its turn) and
\* its failure was reported: a message other than the normal end message, or
\* a syslog entry, follows its last send.
C11_ExhaustedFileReported ==
    DownloadOver =>
        \A n \in 1..Len(dfiles) :
            FailedAll(n) =>
                /\ n < Len(dfiles) => \E i \in 1..Len(dlog) : dlog[i].n = n + 1
                /\ \E r \in Reports : \A i \in Sends(n) : i < r

\* C12 (as claimed): when a download has ended, every enumerated file that did
\* not itself raise (and was not found missing at its turn) was sent, whatever
\* happened to the other files.
C12_ErrorAbandonsOneFile ==
    DownloadOver =>
        \A n \in 1..Len(dfiles) :
            (dfiles[n] = "file" /\ ~RaisedOn(n)
                /\ ~Has(dlog, Op("skip", n, "file")))
                => Sends(n) # {}

\* C13 (as claimed): when an upload or download command in which an exception
\* was raised is over, the failure message of the command was printed once, a
\* syslog entry was written, and no normal end message was printed.
C13_ExceptionReportedAsFailure ==
    (CommandOver /\ Raised) =>
        LET failed == IF dcmd = "upload" THEN "Upload failed" ELSE "Download failed"
        IN /\ Cardinality(Printed(failed)) = 1
           /\ DevOps("syslog") # {}
           /\ Printed("Upload end") = {}
           /\ Printed("Download end") = {}

\* C14: while the handler of an upload or download command runs, and until
\* receive() is called after it has returned, nothing read from the stream has
\* been passed to the receive callback.
C14_NoConsoleOutputDuringSession ==
    pc \in {"upload", "download", "receive"} => ~Has(cb, "data")

\* A download handler has returned, receive() has not run yet
C14_Witness ==
    /\ pc = "receive" /\ Downloading
    /\ Ops("reader") # {}
    /\ ~Has(cb, "data")

\* What the iteration did is what the handler of its command does, and of no
\* other handler
HandledByMatching ==
    from \in Connected =>
        /\ Ops("data") # {} => cur.code = CMD_WRITE_DATA
        /\ Ops("file") \cup Ops("exit") # {} => cur.code = CMD_UPLOAD_FILE
        /\ Ops("reader") # {} <=> (cur.code = CMD_DONWLOAD_FILE /\ HandlerReturned)
        /\ Ops("prompt") # {} <=> cur.code = CMD_UPLOAD_PROMPT_FILE
        /\ Has(cb, "Upload error") => cur.code = CMD_UPLOAD_FILE
        /\ Has(cb, "Download error") => cur.code = CMD_DONWLOAD_FILE
        /\ Has(cb, "Disconnected") => cur.code = CMD_DISCONNECT
        /\ Has(cb, "Connect telnet") => cur.code = CMD_CONNECT_TELNET
        /\ Has(cb, "Connect serial link") => cur.code = CMD_CONNECT_SERIAL
        /\ pc = "done" <=> cur.code = CMD_QUIT
        /\ (Ops("close") # {} /\ ev = {})
              => cur.code \in {CMD_CONNECT_SERIAL, CMD_CONNECT_TELNET,
                               CMD_DISCONNECT, CMD_QUIT}

\* C15: a step of the manager that starts an iteration in a connected state
\* leaves the queue as it is or takes its head, which becomes the command of
\* the iteration; no later step of the iteration takes a command; and the
\* iteration shows the effects of the handler matching the command's code only.
C15_OneCommandInOrderByItsHandler ==
    [][(nput' = nput /\ cancel' = cancel /\ (pc # "run" \/ state \in Connected))
          => /\ \/ command' = command /\ (pc = "run" => cur' = NoCmd)
                \/ /\ pc = "run" /\ command # <<>>
                   /\ command' = Tail(command)
                   /\ cur' = Head(command)
             /\ HandledByMatching']_vars

\* An upload-prompt command was taken and handled while another command
\* stays in the queue
C15_Witness ==
    /\ from \in Connected /\ IterationOver
    /\ cur.code = CMD_UPLOAD_PROMPT_FILE
    /\ Ops("prompt") # {}
    /\ command # <<>>

\* C16: the step of the manager that takes a disconnect command in
\* CONNECTING_TELNET ends in DISCONNECTED with no stream; a stream that was
\* pending has been closed, and the manager has not announced a connection.
C16_DisconnectCancelsPendingConnect ==
    [][(/\ nput' = nput /\ cancel' = cancel
        /\ pc = "run" /\ state = CONNECTING_TELNET
        /\ command # <<>> /\ Head(command).code = CMD_DISCONNECT)
          => /\ state' = DISCONNECTED
             /\ stream' = None
             /\ stream # None => Ops("close")' # {}
             /\ ~Has(cb', "Connected waiting for answer")]_vars

\* A disconnect taken in CONNECTING_TELNET has closed the pending stream
C16_Witness ==
    /\ from = CONNECTING_TELNET /\ cur.code = CMD_DISCONNECT
    /\ Ops("close") # {}
    /\ state = DISCONNECTED /\ stream = None

\* C17 (as claimed): when the iteration that handled a connect command is over
\* and the command has created a stream, the manager is polling it
\* (CONNECTING_TELNET) or is in a connected state, whatever the state the
\* command was taken in; it is not waiting for a command in DISCONNECTED.
C17_ConnectReachesConnected ==
    (IterationOver /\ cur.code \in {CMD_CONNECT_SERIAL, CMD_CONNECT_TELNET}
        /\ stream # None)
        => state \in {CONNECTING_TELNET} \cup Connected

\* C18 (as claimed): when the download handler has returned without an
\* exception, the last call of the receive operation returned false.
C18_HostReceivesUntilFalse ==
    (HandlerReturned /\ Downloading /\ ev \cap {"download"} = {})
        => /\ Ops("reader") # {}
           /\ \A i \in Ops("reader") :
                 (\A j \in Ops("reader") : j <= i) => tx[i].res = "fail"

\* C19: a device download whose scan ran and found no file has written no
\* marker and its last message is the normal end message; a host upload whose
\* handler has returned without an exception and sent no file has written the
\* termination command once.
C19_EmptyTransferCompletes ==
    /\ (DownloadOver /\ ~Has(dlog, Op("normpath", 0, "raise"))
           /\ \A n \in 1..Len(dfiles) : dfiles[n] # "file")
          => /\ DevOps("marker") = {}
             /\ Printed("Download failed") = {}
             /\ Len(dlog) \in Printed("Download end")
    /\ (HandlerReturned /\ Uploading /\ ev \cap {"upload"} = {}
           /\ Ops("file") = {})
          => Cardinality(Ops("exit")) = 1

\* A host upload that found no file has written "exit"
C19_Witness ==
    /\ HandlerReturned /\ Uploading
    /\ Ops("file") = {}
    /\ Ops("exit") # {}
    /\ ~Has(cb, "not found")

\* C20: in the log of a device transfer, every call of the sender (download)
\* and of the receive operation (upload) that returned, True or False, is
\* followed at once by a feed of the watchdog.
C20_WatchdogFedPerFile ==
    \A i \in DevOps("writer") \cup DevOps("reader") :
        dlog[i].res # "raise"
            => /\ i < Len(dlog)
               /\ dlog[i + 1] = Op("feed", dlog[i].n, "ok")

\* An upload has ended on a call of the receive operation that returned
\* false, after a call that returned true; the watchdog was fed after both
C20_Witness ==
    /\ dcmd = "upload" /\ dpc = "prompt"
    /\ \E i \in DevOps("reader") : dlog[i].res = "ok"
    /\ \E i \in DevOps("reader") : dlog[i].res = "fail"
    /\ Cardinality(DevOps("feed")) = Cardinality(DevOps("reader"))
    /\ Printed("Upload end") # {}

\* C21 (as claimed): the caller's thread does not touch the stream: the step
\* of send() that follows the put never finds a stream whose cancel_read() it
\* calls, whatever the worker is doing.
C21_CallerUsesQueueOnly ==
    [][(cancel /\ ~cancel') => stream = None]_vars

\* The upload or download handler of the current iteration caught an exception
SessionFailed == ev \cap {"upload", "download"} # {}

\* C22: when the upload or download handler has returned after an exception,
\* the error has been passed to the callback, the stream is still there and
\* the state is the connected state the iteration began in; and when a later
\* iteration begins in a connected state with an upload or download command,
\* the manager takes that command and runs its handler from the start.
C22_FailedSessionKeepsLink ==
    [][(nput' = nput /\ cancel' = cancel)
          => /\ (pc' = "receive" /\ SessionFailed')
                   => /\ stream' # None /\ stream' = stream
                      /\ state' \in Connected /\ state' = from'
                      /\ loop'
                      /\ \/ Uploading' /\ Has(cb', "Upload error")
                         \/ Downloading' /\ Has(cb', "Download error")
             /\ (IterationOver /\ SessionFailed /\ loop /\ state \in Connected
                    /\ command # <<>> /\ IsSession(Head(command)))
                   => /\ cur' = Head(command)
                      /\ pc' \in {"upload", "download", "receive"}
                      /\ \A i \in 1..Len(tx') : tx'[i].op \in {"file", "exit", "reader"}
                      /\ stream' = stream /\ state' = state]_vars

\* A session has failed on its second file and left the link connected
C22_Witness ==
    /\ pc = "receive" /\ Uploading
    /\ "upload" \in ev
    /\ Cardinality(Ops("file")) = 2
    /\ state \in Connected /\ stream # None

\* The output of the running (or last) command went to a file
Redirected == \E i \in 1..Len(dlog) : dlog[i].op = "fprint"

\* C23: a command whose output goes to a file has written no query and
\* waited for no answer, was told it is not capable, did nothing of a
\* transfer and ended on the refusal, written to the file; and no transfer
\* runs with its output redirected.
C23_NoHandshakeWhenRedirected ==
    /\ Redirected
          => /\ DevOps("query") = {} /\ DevOps("getch") = {}
             /\ ~capable
             /\ Transfers = {} /\ DevOps("writer") = {}
             /\ dlog = <<Op("fprint", 0, Refusal)>>
             /\ dpc = "prompt"
    /\ dpc # "prompt" => stdout_redirected = None

\* A download with its output redirected was refused
C23_Witness ==
    /\ dcmd = "download" /\ dpc = "prompt"
    /\ Has(dlog, Op("fprint", 0, Refusal))
    /\ ~capable

\* C24 (as claimed): when a download has ended, every enumerated file (but one
\* found missing at its turn, one that raised, or one whose 3 sends all failed)
\* was handed over by a send that succeeded, and the sends follow the order of
\* the enumeration.
C24_RoundTrip ==
    DownloadOver =>
        \A n \in 1..Len(dfiles) :
            (dfiles[n] = "file" /\ ~Has(dlog, Op("skip", n, "file"))
                /\ ~RaisedOn(n) /\ ~FailedAll(n))
                => /\ \E i \in Sends(n) : dlog[i].res = "ok"
                   /\ \A k \in 1..(n - 1) : \A i \in Sends(k), j \in Sends(n) : i < j

\* The check of the current password of the last call of User.change succeeded
\* on the credentials stored before the call
CheckPassed ==
    \/ last.old.user = ""
    \/ /\ Lower(last.user) = last.old.user
       /\ gethash(last.current) = last.old.password

\* C25: after a call of User.change: when the check passed and the two new
\* passwords were equal it returned True, saved, and stored the lowered name
\* with the hash of the new password (no user and the empty password's hash
\* for an empty new password); when the check passed and they differed it
\* returned None; when the check failed it returned False; and in these two
\* cases nothing was saved and the stored credentials are as before the call.
C25_ChangeNeedsCheckAndRenew ==
    last.ret # "-" =>
        /\ (CheckPassed /\ last.new = last.renew)
              => /\ last.ret = "True" /\ last.saved
                 /\ instance = IF last.new = ""
                               THEN [user |-> "", password |-> EMPTY_PASSWORD]
                               ELSE [user |-> Lower(last.user),
                                     password |-> gethash(last.new)]
        /\ (CheckPassed /\ last.new # last.renew) => last.ret = "None"
        /\ ~CheckPassed => last.ret = "False"
        /\ last.ret # "True" => (~last.saved /\ instance = last.old)

\* A user with a password is stored, and a call with a wrong current password
\* and two equal new passwords was turned down
C25_Witness ==
    /\ last.ret = "False"
    /\ last.old.user = "bob" /\ Lower(last.user) = "bob"
    /\ last.new = last.renew /\ last.new # ""
    /\ instance = last.old

\* C26 (as claimed): between two iterations of the loop, and when the loop is
\* over, the state is DISCONNECTED exactly when there is no stream, and a
\* connected state has a stream.
C26_StateAgreesWithStream ==
    IterationOver =>
        /\ state = DISCONNECTED <=> stream = None
        /\ state \in Connected => stream # None

\* Data of n bytes, all different
Bytes(n) == [i \in 1..n |-> i]

RECURSIVE Flatten(_)
Flatten(seqs) == IF seqs = <<>> THEN <<>> ELSE Head(seqs) \o Flatten(Tail(seqs))

\* The lengths of the writes of data made in the current iteration, in order
RECURSIVE Lengths(_)
Lengths(ops) ==
    IF ops = <<>> THEN <<>>
    ELSE (IF Head(ops).op = "data" THEN <<Head(ops).n>> ELSE <<>>)
             \o Lengths(Tail(ops))

C28_CommandDiscardedWhenNotConnected ==
    [][(/\ nput' = nput /\ cancel' = cancel
        /\ pc = "run" /\ state \notin Connected
        /\ command # <<>>
        /\ Head(command).code \in {CMD_WRITE_DATA, CMD_UPLOAD_FILE,
                                   CMD_DONWLOAD_FILE})
          => /\ tx' = <<>>
             /\ stream' = stream
             /\ command' = Tail(command)
             /\ cur' = Head(command)
             /\ pc' = "run" /\ todo' = todo
             /\ ev' = {}]_vars

\* A write-data command was taken while the connection was being made; the
\* connection is made and nothing was written
C28_Witness ==
    /\ IterationOver /\ from = CONNECTING_TELNET
    /\ cur.code = CMD_WRITE_DATA
    /\ state \in Connected
    /\ tx = <<>>

Markers(n) == {i \in DevOps("marker") : dlog[i].n = n}

\* C29: in the log of a download, every marker is followed at once by the call
\* of the file writer for the same entry, which is a regular file; every call
\* of the file writer follows its marker at once; so an entry has as many
\* markers as sends, and at most 3.
C29_MarkerBeforeEachSend ==
    /\ \A i \in DevOps("marker") :
          /\ i < Len(dlog)
          /\ dlog[i + 1].op = "writer" /\ dlog[i + 1].n = dlog[i].n
          /\ dcmd = "download" /\ dfiles[dlog[i].n] = "file"
    /\ \A j \in DevOps("writer") :
          j > 1 /\ dlog[j - 1] = Op("marker", dlog[j].n, "ok")
    /\ \A n \in 1..Len(dfiles) :
          /\ Cardinality(Markers(n)) = Cardinality(Sends(n))
          /\ Cardinality(Markers(n)) <= Retries

\* A file was sent 3 times, with 3 markers, beside a directory with none
C29_Witness ==
    /\ DownloadOver
    /\ \E n \in 1..Len(dfiles) : Cardinality(Markers(n)) = Retries
    /\ \E n \in 1..Len(dfiles) :
          dfiles[n] = "dir" /\ Has(dlog, Op("skip", n, "dir"))

\* C30 (as claimed): whenever the device that has sent an upload request reads
\* the termination text of the host, it reads it in the receive loop of
\* upload; the shell prompt never gets it, and the shell's exit command is
\* not run.
C30_ExitTextConsumedByUploadLoop ==
    [][(consumed' # consumed /\ dcmd = "upload"
           /\ Has(dlog, Op("request", 0, "ok")))
          => (dpc = "upload" /\ ~shell_exited')]_vars

----------------------------------------------------------------------------
\* The directory a request resolves to lies in the working directory: it is
\* the working directory or one below it
Inside(directory, d) ==
    LET c == Comps(d)
        w == Comps(directory)
    IN Len(w) <= Len(c) /\ SubSeq(c, 1, Len(w)) = w

\* C31: for any upload request, the host sends only files located inside its
\* working directory: a request whose resolved directory is outside it (by
\* .. components, or a sibling directory whose name starts with the working
\* directory's name) causes no file to be sent.
C31_SendsOnlyFromWorkingDirectory ==
    scan.sent > 0 => Inside(Directory, scan.directory_)

\* The part of C31 about leaving by ".." to a directory whose name does not
\* start with the working directory's: nothing is sent from "/"
C31_ParentRefused ==
    (scan.done /\ wanted.path = UP /\ wanted.pattern = STAR) => scan.sent = 0

C31_SiblingSent ==
    /\ scan.sent > 0
    /\ wanted.path = Relative(<<UP, W2>>)
    /\ scan.directory_ = Absolute(<<W2>>)

----------------------------------------------------------------------------
\* C32: whenever exec_command is not executing (before the first command and
\* after every return: the command succeeded, raised, was cancelled by
\* KeyboardInterrupt or was rejected at parsing), stdout_redirected is None
\* and the redirection file opened for the command, if any, has been closed.
C32_RedirectionEndsWithCommand ==
    xpc = "idle" => stdout_redirected = None /\ xfile # "open"

\* A redirected command that was cancelled has returned
C32_Witness ==
    /\ xpc = "idle" /\ xfile = "closed" /\ xres = "KeyboardInterrupt"
    /\ Has(xlog, Op("fprint", 0, " [Canceled]"))

\* A call rejected at parsing has returned, after an earlier call
C32_RejectedWitness ==
    /\ xpc = "idle" /\ xcount = 2
    /\ Has(xlog, Op("print", 0, "err"))

----------------------------------------------------------------------------
\* The step is a call of acquire, alone or from reserve
IsAcquire == rlast'.op \in {"acquire", "reserve"}

\* C33: the reservation is exclusive. While an object holds it, a call of
\* acquire, reserve or unreserve by another object returns False and changes
\* neither the holder nor its count.
C33_Exclusive ==
    [][(identifier # NoId /\ id(rlast'.object_) # identifier)
          => /\ rlast'.result = "False"
             /\ identifier' = identifier
             /\ count' = count]_vars

\* B's reserve has returned False, and A holds the reservation twice
C33_Witness ==
    /\ identifier = id("A") /\ count = 2
    /\ rlast.op = "reserve" /\ rlast.object_ = "B" /\ rlast.returned
    /\ rlast.result = "False"

\* C34: after the holder of a reservation taken with suspension n > 0
\* releases it, the next n acquire calls made without a suspension each return
\* False and decrement the counter, and the following one succeeds; an acquire
\* that gives a suspension succeeds at once on a free reservation.
C34_SuspensionCountsDown ==
    [][(identifier = NoId /\ IsAcquire)
          => /\ (taken > 0 /\ rlast'.suspension = NoneInt /\ since < taken)
                  => rlast'.result = "False" /\ suspended' = suspended - 1
             /\ (taken > 0 /\ rlast'.suspension = NoneInt /\ since = taken)
                  => rlast'.result = "True"
             /\ rlast'.suspension # NoneInt
                  => rlast'.result = "True"
                     /\ identifier' = id(rlast'.object_)]_vars

\* The same when every acquire of the holder gave the suspension n
C34_UniformHolding ==
    [][(identifier = NoId /\ IsAcquire)
          => /\ (taken > 0 /\ uniform /\ rlast'.suspension = NoneInt
                   /\ since < taken)
                  => rlast'.result = "False" /\ suspended' = suspended - 1
             /\ (taken > 0 /\ uniform /\ rlast'.suspension = NoneInt
                   /\ since = taken)
                  => rlast'.result = "True"
             /\ rlast'.suspension # NoneInt
                  => rlast'.result = "True"
                     /\ identifier' = id(rlast'.object_)]_vars

\* The acquire that follows the n refused ones has taken the reservation
C34_UniformWitness ==
    /\ taken = NoneInt /\ since = MaxSuspension + 1
    /\ identifier # NoId /\ rlast.suspension = NoneInt
    /\ rlast.result = "True"

\* C35: in every reachable state of Reservation, suspended is a non-negative
\* integer, so that its comparison with 0 in acquire is defined.
C35_SuspendedIsNatural ==
    suspended \in Nat

\* The comparison of None with 0 was made: acquire raised TypeError
C35_Raised ==
    rlast.result = "TypeError"

\* C36: identifier is None exactly when count is 0, count is never negative,
\* and the reservation is free exactly when the holder has called unreserve
\* as many times as it acquired.
C36_CountBalancesAcquires ==
    /\ identifier = NoId <=> count = 0
    /\ count >= 0
    /\ held = count

\* The first of the two unreserve calls that two acquires need
C36_Witness ==
    /\ identifier # NoId /\ count = 1
    /\ rlast.op = "unreserve" /\ rlast.result = "True"

====
